---- MODULE Spec2Model ----
(***************************************************************************)
(* marketfit (src/main.py): the outbound-request safety gate               *)
(* (SecurityManager.is_safe_url), the three harvesters                     *)
(* (scrape_hn_opportunities, scrape_reddit_rss, find_app/scrape_reviews),  *)
(* the synthesis adapter (generate_business_ideas) and the request handler *)
(* (generate).                                                             *)
(*                                                                         *)
(* URLs, hostnames and IP addresses are strings, as in the code: a string  *)
(* is a sequence of characters, so Len, SubSeq and \o act on it.  The      *)
(* network, the resolver and the synthesis service are the environment:    *)
(* every call draws its outcome from a bounded set.                        *)
(***************************************************************************)
EXTENDS Integers, Sequences, FiniteSets, TLC

(* ------------------------------ bounds -------------------------------- *)
MaxAddrs == 2     \* addresses in one resolver answer
MaxStories == 2   \* identifiers in the HN listing
MaxSubs == 2      \* communities in one request
MaxPosts == 2     \* posts in one community listing
MaxReviews == 2   \* reviews in one review page / feed
MaxIdeas == 1     \* ideas in one synthesis answer
MaxFaults == 3    \* failing outcomes (gate refusals, failed calls) in one request
MaxRecords == 31  \* records handed to generate_business_ideas on its own

(* -------------------------- string helpers ---------------------------- *)
\* The value of v, computed once, handed to F.
Bind(v, F(_)) == CHOOSE r \in { F(b) : b \in {v} } : TRUE

Min(S) == CHOOSE m \in S : \A k \in S : m <= k
Max(S) == CHOOSE m \in S : \A k \in S : m >= k

Char(s, i) == SubSeq(s, i, i)                    \* s[i-1]
From(s, i) == SubSeq(s, i, Len(s))               \* s[i-1:]
Upto(s, i) == SubSeq(s, 1, i)                    \* s[:i]
Take(s, n) == SubSeq(s, 1, IF Len(s) < n THEN Len(s) ELSE n)   \* s[:n]

\* str.find(c, from), 1-based; 0 when c does not occur at or after `from`
Find(s, c, from) ==
  LET hits == { i \in from..Len(s) : Char(s, i) = c } IN
  IF hits = {} THEN 0 ELSE Min(hits)
\* str.rfind(c), 1-based; 0 when absent
RFind(s, c) ==
  LET hits == { i \in 1..Len(s) : Char(s, i) = c } IN
  IF hits = {} THEN 0 ELSE Max(hits)

StartsWith(s, t) == Len(s) >= Len(t) /\ Upto(s, Len(t)) = t
EndsWith(s, t) == Len(s) >= Len(t) /\ From(s, Len(s) - Len(t) + 1) = t
\* t in s
Contains(s, t) == \E i \in 1..(Len(s) - Len(t) + 1) : SubSeq(s, i, i + Len(t) - 1) = t

UpperChars == "ABCDEFGHIJKLMNOPQRSTUVWXYZ"
LowerChars == "abcdefghijklmnopqrstuvwxyz"
DigitChars == "0123456789"
UpperSet == { Char(UpperChars, i) : i \in 1..Len(UpperChars) }
LowerSet == { Char(LowerChars, i) : i \in 1..Len(LowerChars) }
DigitSet == { Char(DigitChars, i) : i \in 1..Len(DigitChars) }

IsAlpha(c) == c \in UpperSet \/ c \in LowerSet
IsDigit(c) == c \in DigitSet
IsSchemeChar(c) == IsAlpha(c) \/ IsDigit(c) \/ c \in {"+", "-", "."}
IsSpace(c) == c \in {" ", "\t", "\n", "\r"}

\* A string as the tuple of its characters; str.lower() gives such a tuple,
\* and lower-cased text is compared with Chars of a literal.
Chars(s) == [i \in 1..Len(s) |-> Char(s, i)]
LowerChar(c) ==
  IF c \in UpperSet THEN Char(LowerChars, Find(UpperChars, c, 1)) ELSE c
Lower(s) == [i \in 1..Len(s) |-> LowerChar(Char(s, i))]

\* str.strip()
Strip(s) ==
  LET keep == { i \in 1..Len(s) : ~IsSpace(Char(s, i)) } IN
  IF keep = {} THEN "" ELSE SubSeq(s, Min(keep), Max(keep))

RECURSIVE DecStr(_)
\* str(n) for a natural number
DecStr(n) ==
  IF n < 10 THEN Char(DigitChars, n + 1)
  ELSE DecStr(n \div 10) \o Char(DigitChars, (n % 10) + 1)

(* ------------------- 1. SecurityManager.is_safe_url -------------------- *)
ALLOWED_DOMAINS ==
  << "hacker-news.firebaseio.com",
     "reddit.com", "www.reddit.com", "old.reddit.com",
     "itunes.apple.com", "apps.apple.com" >>

None == "<None>"          \* Python's None (where a string is expected)
PyTrue == "True"
PyFalse == "False"
Raised == "<raised>"      \* an exception leaving the evaluated code

\* urlsplit: the scheme is the text before the first ":" when that text is
\* non-empty, starts with a letter and holds scheme characters only; it is
\* lower-cased.  UrlRest is what follows it.
SchemeEnd(url) ==
  LET i == Find(url, ":", 1) IN
  IF i > 1 /\ IsAlpha(Char(url, 1))
       /\ \A k \in 1..(i - 1) : IsSchemeChar(Char(url, k))
  THEN i ELSE 0
UrlScheme(url) == Lower(Upto(url, SchemeEnd(url) - 1))
UrlRest(url) == From(url, SchemeEnd(url) + 1)

\* _splitnetloc: after "//", up to the first of "/", "?", "#"
NetlocEnd(rest) ==
  LET cands == { Find(rest, d, 3) : d \in {"/", "?", "#"} } \ {0} IN
  IF cands = {} THEN Len(rest) + 1 ELSE Min(cands)
UrlNetloc(url) ==
  Bind(UrlRest(url), LAMBDA rest :
    IF StartsWith(rest, "//") THEN SubSeq(rest, 3, NetlocEnd(rest) - 1) ELSE "")

\* urlsplit raises ValueError("Invalid IPv6 URL") on an unbalanced bracket
NetlocRaises(netloc) ==
  LET open == Find(netloc, "[", 1) > 0
      close == Find(netloc, "]", 1) > 0
  IN (open /\ ~close) \/ (close /\ ~open)

\* SplitResult.hostname: drop userinfo (up to the last "@"), then a bracketed
\* host or the text before the first ":"; None (the empty tuple here) when
\* that is empty, else lower-cased.
NetlocHost(netloc) ==
  Bind(From(netloc, RFind(netloc, "@") + 1), LAMBDA hostinfo :
    LET br == Find(hostinfo, "[", 1) IN
    IF br > 0
    THEN LET cl == Find(hostinfo, "]", br + 1)
         IN IF cl = 0 THEN From(hostinfo, br + 1) ELSE SubSeq(hostinfo, br + 1, cl - 1)
    ELSE LET col == Find(hostinfo, ":", 1)
         IN IF col = 0 THEN hostinfo ELSE Upto(hostinfo, col - 1))
NoHostname == << >>
UrlHostname(url) == Lower(NetlocHost(UrlNetloc(url)))

\* Check 2 of is_safe_url: exact match or subdomain ("." + allowed suffix)
HostAllowedNoDot(hostname) ==
  \E k \in 1..Len(ALLOWED_DOMAINS) :
    hostname = Chars(ALLOWED_DOMAINS[k]) \/ EndsWith(hostname, Chars(ALLOWED_DOMAINS[k]))
HostAllowedExactOnly(hostname) ==
  \E k \in 1..Len(ALLOWED_DOMAINS) : hostname = Chars(ALLOWED_DOMAINS[k])
HostAllowed(hostname) ==
  \E k \in 1..Len(ALLOWED_DOMAINS) :
    \/ hostname = Chars(ALLOWED_DOMAINS[k])
    \/ EndsWith(hostname, Chars("." \o ALLOWED_DOMAINS[k]))

\* ipaddress.ip_address on a dotted quad: four decimal fields of 1..3 digits,
\* each at most 255; anything else raises ValueError (<< >> here).
RECURSIVE DecVal(_)
DecVal(s) ==
  IF s = "" THEN 0
  ELSE 10 * DecVal(Upto(s, Len(s) - 1)) + (Find(DigitChars, Char(s, Len(s)), 1) - 1)
OctetOk(f) ==
  /\ Len(f) \in 1..3
  /\ \A k \in 1..Len(f) : IsDigit(Char(f, k))
  /\ DecVal(f) <= 255
\* ip.split("."): the fields between the dots, for an ip with three dots
SplitDots(ip) ==
  LET dots == { i \in 1..Len(ip) : Char(ip, i) = "." } IN
  IF Cardinality(dots) # 3 THEN << >>
  ELSE LET d1 == Min(dots)
           d3 == Max(dots)
           d2 == CHOOSE d \in dots : d # d1 /\ d # d3
       IN << SubSeq(ip, 1, d1 - 1), SubSeq(ip, d1 + 1, d2 - 1),
             SubSeq(ip, d2 + 1, d3 - 1), SubSeq(ip, d3 + 1, Len(ip)) >>
ParseIp(ip) ==
  Bind(SplitDots(ip), LAMBDA fs :
    IF Len(fs) = 4 /\ \A k \in 1..4 : OctetOk(fs[k])
    THEN [k \in 1..4 |-> DecVal(fs[k])]
    ELSE << >>)

\* IPv4Address.is_loopback: 127.0.0.0/8
IsLoopback(o) == o[1] = 127
\* IPv4Address.is_private: the networks of ipaddress._private_networks
IsPrivate(o) ==
  \/ o[1] = 0
  \/ o[1] = 10
  \/ o[1] = 127
  \/ o[1] = 169 /\ o[2] = 254
  \/ o[1] = 172 /\ o[2] \in 16..31
  \/ o[1] = 192 /\ o[2] = 0 /\ o[3] = 0 /\ o[4] \in 0..7
  \/ o[1] = 192 /\ o[2] = 0 /\ o[3] = 0 /\ o[4] \in 170..171
  \/ o[1] = 192 /\ o[2] = 0 /\ o[3] = 2
  \/ o[1] = 192 /\ o[2] = 168
  \/ o[1] = 198 /\ o[2] \in 18..19
  \/ o[1] = 198 /\ o[2] = 51 /\ o[3] = 100
  \/ o[1] = 203 /\ o[2] = 0 /\ o[3] = 113
  \/ o[1] >= 240

\* One address of ip_list: "raise" (ip_address raises), "block" (private or
\* loopback: return False) or "pass".
IpVerdict(ip) ==
  Bind(ParseIp(ip), LAMBDA ip_obj :
    IF ip_obj = << >> THEN "raise"
    ELSE IF IsPrivate(ip_obj) \/ IsLoopback(ip_obj) THEN "block"
    ELSE "pass")

\* Check 3, the loop over ip_list: the first address that does not pass
\* decides, by raising or by returning False; True when every one passes.
CheckIpsFirstOnly(ip_list) ==
  IF ip_list = << >> \/ IpVerdict(ip_list[1]) = "pass" THEN PyTrue
  ELSE IF IpVerdict(ip_list[1]) = "raise" THEN Raised ELSE PyFalse
CheckIps(ip_list) ==
  LET stop == { k \in 1..Len(ip_list) : IpVerdict(ip_list[k]) # "pass" } IN
  IF stop = {} THEN PyTrue
  ELSE IF IpVerdict(ip_list[Min(stop)]) = "raise" THEN Raised ELSE PyFalse

\* A resolver answer: DnsFail (gethostbyname_ex raises) or the address list.
DnsFail == << "<gaierror>" >>

SchemeAcceptedAlsoHttp(scheme) == scheme \in {Chars("https"), Chars("http")}
SchemeAccepted(scheme) == scheme = Chars("https")   \* not (parsed.scheme != "https")

\* The body of the try block: PyTrue, PyFalse, or Raised.
SafeUrlBody(url, dns) ==
  Bind(UrlNetloc(url), LAMBDA netloc :
    IF NetlocRaises(netloc) THEN Raised                \* urlparse(url)
    ELSE IF ~SchemeAccepted(UrlScheme(url)) THEN PyFalse
    ELSE Bind(Lower(NetlocHost(netloc)), LAMBDA hostname :
           IF hostname = NoHostname THEN Raised        \* None.lower()
           ELSE IF ~HostAllowed(hostname) THEN PyFalse
           ELSE IF dns = DnsFail THEN Raised           \* gethostbyname_ex
           ELSE CheckIps(dns)))

\* except Exception: return False
SafeUrlNoCatch(r) == r
SafeUrlCatch(r) == IF r = Raised THEN PyFalse ELSE r

is_safe_url(url, dns) == SafeUrlCatch(SafeUrlBody(url, dns))

(* --------------------------- gate inputs ------------------------------- *)
IpPool == { "151.101.1.140", "10.0.0.5", "192.168.1.10", "127.0.0.1", "bogus" }

RECURSIVE SeqsUpTo(_, _)
SeqsUpTo(S, n) ==
  IF n = 0 THEN { << >> }
  ELSE LET shorter == SeqsUpTo(S, n - 1) IN
       shorter \cup { Append(q, x) : q \in { r \in shorter : Len(r) = n - 1 }, x \in S }

DnsOutcomes == { DnsFail } \cup SeqsUpTo(IpPool, MaxAddrs)

\* The resolver's answers while a request is served.
RequestDns == { DnsFail, << "151.101.1.140" >>, << "151.101.1.140", "10.0.0.5" >> }

GateUrls ==
  { "https://www.reddit.com/r/SaaS/hot.json?limit=25",
    "https://hacker-news.firebaseio.com/v0/askstories.json",
    "https://api.reddit.com/x",
    "https://evilreddit.com/",
    "https://reddit.com.evil.org/",
    "https://www.reddit.com@evil.org/",
    "https://evil.org@old.reddit.com:8443/x",
    "https://play.google.com/store/search?q=a&c=apps",
    "https://news.ycombinator.com/item?id=1",
    "HTTPS://WWW.Reddit.COM/",
    "https://itunes.apple.com?x",
    "http://www.reddit.com/",
    "ftp://reddit.com/",
    "//www.reddit.com/x",
    "www.reddit.com",
    "https:///r/SaaS",
    "https://[www.reddit.com/",
    "" }

(* ------------------------- environment data --------------------------- *)
\* A trace event: a gate verdict, a network call, a sleep, a synthesis call.
Ev(kind, url, ok) == [kind |-> kind, url |-> url, ok |-> ok]

\* An OpportunityRecord, with `via`: the position in the trace of the network
\* call whose response it was made from (history, not a field of the code).
Rec(id, text, url, source, via) ==
  [id |-> id, text |-> text, url |-> url, source |-> source, via |-> via]

\* Bodies a 200 answer of the HN item endpoint can carry for identifier sid:
\* JSON null (a deleted item), a story that names an unmet need, one that
\* does not.
HnBodies(sid) ==
  { [isnull |-> TRUE, id |-> sid, title |-> "", text |-> ""],
    [isnull |-> FALSE, id |-> sid, title |-> "Ask HN: Alternative to cron?", text |-> ""],
    [isnull |-> FALSE, id |-> sid, title |-> "Show HN: a demo", text |-> "no need"] }
NoBody == [isnull |-> TRUE, id |-> 0, title |-> "", text |-> ""]

\* What one detail fetch gives: the fetch raising, or a response.
HnItemOutcomes(sid) ==
  { [kind |-> "exc", status |-> 0, body |-> NoBody],
    [kind |-> "resp", status |-> 500, body |-> NoBody] }
  \cup { [kind |-> "resp", status |-> 200, body |-> b] : b \in HnBodies(sid) }
Pending == [kind |-> "pending", status |-> 0, body |-> NoBody]

\* What the listing fetch gives: raising (or a body that is no list), or the
\* identifiers 101, 102, ...
HnListingOutcomes ==
  { [kind |-> "exc", ids |-> << >>] }
  \cup { [kind |-> "ok", ids |-> [k \in 1..n |-> 100 + k]] : n \in 0..MaxStories }

\* A post of a community listing, by kind and position:
\*   "good"  a post that becomes a record
\*   "pin"   a stickied post
\*   "short" a post whose title is under 10 characters
\*   "null"  a post whose title is JSON null (len(title) raises)
PostKinds == { "good", "pin", "short", "null" }
MkPost(kind, pos, sub) ==
  [id |-> "t" \o DecStr(pos),
   title |-> CASE kind = "good" -> "Need a better invoicing tool"
               [] kind = "pin" -> "Weekly megathread"
               [] kind = "short" -> "Help me"
               [] OTHER -> None,
   selftext |-> "Any ideas?",
   stickied |-> (kind = "pin"),
   permalink |-> "/r/" \o sub \o "/comments/t" \o DecStr(pos) \o "/"]
\* What one listing request gives: requests.get raising, or a status with
\* (for 200) the kinds of the posts of the body.
RdOutcomes ==
  { [kind |-> "exc", status |-> 0, posts |-> << >>],
    [kind |-> "resp", status |-> 429, posts |-> << >>],
    [kind |-> "resp", status |-> 500, posts |-> << >>] }
  \cup { [kind |-> "resp", status |-> 200, posts |-> q] :
           q \in SeqsUpTo(PostKinds, MaxPosts) }
SubNames == { " a", "" }

\* App resolution.  iOS search: raising, no result, or a first result.
\* Store search page (android): raising, a non-200 status, a 200 page with
\* no identifier in it, or one with an identifier.
FindOutcomes == { "exc", "non200", "nomatch", "match" }
DetailOutcomes == { "exc", "ok" }        \* play_app(gp_id)
\* play_reviews / the iOS feed: raising, or the kinds of the items:
\*   "long" a review over 10 characters, "tiny" one of at most 10,
\*   "meta" a feed entry without author
ReviewKinds == { "long", "tiny", "meta" }
ReviewOutcomes ==
  { [kind |-> "exc", items |-> << >>] }
  \cup { [kind |-> "ok", items |-> q] : q \in SeqsUpTo(ReviewKinds, MaxReviews) }

\* The synthesis service: raising (or unparsable content), or ideas, each
\* naming a source_id.
IdeaSourceIds == { -1, 0, 1, 30 }
LlmOutcomes ==
  { [kind |-> "exc", ids |-> << >>] }
  \cup { [kind |-> "ok", ids |-> q] : q \in SeqsUpTo(IdeaSourceIds, MaxIdeas) }

(* ------------------------------ state ---------------------------------- *)
VARIABLES
  probe,      \* one is_safe_url call on an arbitrary URL: [url, dns, result]
  pc,         \* position of the request handler generate()
  data,       \* request.json
  collected,  \* collected_data
  response,   \* what generate() answers
  trace,      \* gate verdicts, network calls, sleeps, in program order
  hn,         \* locals of scrape_hn_opportunities
  rd,         \* locals of scrape_reddit_rss
  rv,         \* locals of scrape_reviews / find_app
  faults      \* how many outcomes drawn so far were failures

vars == << probe, pc, data, collected, response, trace, hn, rd, rv, faults >>
pipe == << pc, data, collected, response, trace, hn, rd, rv, faults >>

\* The environment may fail a step only while the request's budget lasts.
Fault(failed) ==
  /\ failed => faults < MaxFaults
  /\ faults' = IF failed THEN faults + 1 ELSE faults

NoProbe == [url |-> None, dns |-> << >>, result |-> None]
NoResponse == [status |-> 0, raw_count |-> 0, ideas |-> << >>, error |-> ""]
HnIdle == [story_ids |-> << >>, i |-> 1, tasks |-> << >>, calls |-> << >>,
           responses |-> << >>, pending |-> {}]

\* rd.resp is the last answer received for the community at hand.  rd.log
\* is history: per community reached, its gate verdict, how many requests
\* were issued for it, whether an attempt succeeded, and the position in the
\* trace of that attempt's call.
NoResp == [kind |-> "none", status |-> 0, posts |-> << >>]
RdIdle == [subs |-> << >>, i |-> 1, attempt |-> 1, resp |-> NoResp,
           opportunities |-> << >>, log |-> << >>]
NoApp == [found |-> FALSE, platform |-> "", id |-> "", title |-> "", url |-> ""]
RvIdle == [app_info |-> NoApp, isnone |-> FALSE, reviews |-> << >>]

NoPayload == [present |-> FALSE, source |-> "", subreddits |-> << >>,
              app_name |-> "", platform |-> ""]
Payload(source, subs, app_name, platform) ==
  [present |-> TRUE, source |-> source, subreddits |-> subs,
   app_name |-> app_name, platform |-> platform]

\* The requests: a missing payload, and per selector the parameters that
\* selector reads (a field the request omits takes data.get's default).
Requests ==
  { NoPayload, Payload("hn", << >>, "", "android"), Payload("other", << >>, "", "android") }
  \cup { Payload("reddit", q, "", "android") : q \in SeqsUpTo(SubNames, MaxSubs) }
  \cup { Payload("all", q, "", "android") : q \in { << >>, << " a" >> } }
  \cup { Payload("reviews", << >>, n, p) :
           n \in { "", "  ", "Notes" }, p \in { "android", "ios" } }

(* ------------------ 2A. scrape_hn_opportunities ------------------------ *)
HnLimit == 20
HN_LISTING_URL == "https://hacker-news.firebaseio.com/v0/askstories.json"
HnItemUrl(sid) ==
  "https://hacker-news.firebaseio.com/v0/item/" \o DecStr(sid) \o ".json"
Keywords == << "how to", "alternative", "wish", "sucks", "problem", "hard to" >>
HnTextCut == 200

StoryMatches(title, text) ==
  \E k \in 1..Len(Keywords) :
    \/ Contains(Lower(title), Chars(Keywords[k]))
    \/ Contains(Lower(text), Chars(Keywords[k]))

HnRecord(story, via) ==
  Rec(DecStr(story.id),
      "[HN] " \o story.title \o " - " \o Take(story.text, HnTextCut),
      "https://news.ycombinator.com/item?id=" \o DecStr(story.id),
      "Hacker News", via)

RECURSIVE HnLoop(_, _, _, _)
\* for r in responses: an exception object or a non-200 answer is skipped;
\* r.json() giving null makes story.get raise, which leaves the loop.
HnLoop(responses, calls, k, acc) ==
  IF k > Len(responses) THEN [raised |-> FALSE, opps |-> acc]
  ELSE LET r == responses[k] IN
       IF r.kind = "exc" \/ r.status # 200
       THEN HnLoop(responses, calls, k + 1, acc)
       ELSE IF r.body.isnull THEN [raised |-> TRUE, opps |-> acc]
       ELSE IF StoryMatches(r.body.title, r.body.text)
       THEN HnLoop(responses, calls, k + 1, Append(acc, HnRecord(r.body, calls[k])))
       ELSE HnLoop(responses, calls, k + 1, acc)

\* return opportunities / except Exception: return []
HnResult(responses, calls) ==
  LET r == HnLoop(responses, calls, 1, << >>) IN
  IF r.raised THEN << >> ELSE r.opps

\* collected_data.extend(items)
ExtendFront(collected_data, items) == items \o collected_data
Extend(collected_data, items) == collected_data \o items

\* generate(): collected_data.extend(await scrape_hn_opportunities())
HnReturn(opps) ==
  /\ collected' = Extend(collected, opps)
  /\ hn' = HnIdle
  /\ pc' = "sel_reddit"

\* line 111: the listing URL's gate
HnGateListing ==
  /\ pc = "hn_gate"
  /\ \E dns \in RequestDns :
       LET ok == is_safe_url(HN_LISTING_URL, dns) = PyTrue IN
       /\ Fault(~ok)
       /\ trace' = Append(trace, Ev("gate", HN_LISTING_URL, ok))
       /\ IF ok THEN pc' = "hn_list" /\ UNCHANGED << collected, hn >>
                ELSE HnReturn(<< >>)
  /\ UNCHANGED << probe, data, response, rd, rv >>

\* lines 116-119: jitter, the listing fetch, story_ids = resp.json()[:limit]
HnFetchListing ==
  /\ pc = "hn_list"
  /\ trace' = trace \o << Ev("sleep", "", TRUE), Ev("call", HN_LISTING_URL, TRUE) >>
  /\ \E out \in HnListingOutcomes :
       /\ Fault(out.kind = "exc")
       /\ IF out.kind = "exc"
          THEN HnReturn(<< >>)
          ELSE /\ hn' = [HnIdle EXCEPT !.story_ids = Take(out.ids, HnLimit)]
               /\ pc' = "hn_item_gate"
               /\ UNCHANGED collected
  /\ UNCHANGED << probe, data, response, rd, rv >>

\* lines 122-125: one turn of the loop over story_ids
HnGateItem ==
  /\ pc = "hn_item_gate"
  /\ hn.i <= Len(hn.story_ids)
  /\ LET sid == hn.story_ids[hn.i]
         item_url == HnItemUrl(sid)
     IN \E dns \in RequestDns :
          LET ok == is_safe_url(item_url, dns) = PyTrue IN
          /\ Fault(~ok)
          /\ trace' = Append(trace, Ev("gate", item_url, ok))
          /\ hn' = [hn EXCEPT !.i = @ + 1,
                              !.tasks = IF ok THEN Append(@, sid) ELSE @]
  /\ UNCHANGED << probe, pc, data, collected, response, rd, rv >>

\* line 128: asyncio.gather starts every task, in the order of `tasks`
HnGather ==
  /\ pc = "hn_item_gate"
  /\ hn.i > Len(hn.story_ids)
  /\ trace' = trace \o [k \in 1..Len(hn.tasks) |-> Ev("call", HnItemUrl(hn.tasks[k]), TRUE)]
  /\ hn' = [hn EXCEPT !.calls = [k \in 1..Len(hn.tasks) |-> Len(trace) + k],
                      !.responses = [k \in 1..Len(hn.tasks) |-> Pending],
                      !.pending = 1..Len(hn.tasks)]
  /\ pc' = "hn_wait"
  /\ UNCHANGED << probe, data, collected, response, rd, rv, faults >>

\* asyncio.gather puts the result of task t at position t of its result list
GatherSlotByCompletion(responses, t, out) ==
  [responses EXCEPT ![Min({ k \in 1..Len(responses) : responses[k] = Pending })] = out]
GatherSlot(responses, t, out) == [responses EXCEPT ![t] = out]

\* one detail fetch completes, in any order; gather keeps its slot
HnComplete ==
  /\ pc = "hn_wait"
  /\ \E t \in hn.pending :
       \E out \in HnItemOutcomes(hn.tasks[t]) :
         /\ Fault(out.kind = "exc" \/ out.status # 200 \/ out.body.isnull)
         /\ hn' = [hn EXCEPT !.responses = GatherSlot(@, t, out), !.pending = @ \ {t}]
  /\ UNCHANGED << probe, pc, data, collected, response, trace, rd, rv >>

\* lines 130-151: gather returned; filter and map, or fail as a whole
HnAssemble ==
  /\ pc = "hn_wait"
  /\ hn.pending = {}
  /\ HnReturn(HnResult(hn.responses, hn.calls))
  /\ UNCHANGED << probe, data, response, trace, rd, rv, faults >>

(* --------------------- 2B. scrape_reddit_rss --------------------------- *)
Attempts == 3
RdTextCut == 200
RdMinTitle == 10
JsonUrl(sub) == "https://www.reddit.com/r/" \o Strip(sub) \o "/hot.json?limit=25"

RdRecord(post, sub, via) ==
  Rec(post.id,
      "[Reddit r/" \o Strip(sub) \o "] " \o post.title \o " - " \o Take(post.selftext, RdTextCut),
      "https://reddit.com" \o post.permalink,
      "Reddit r/" \o Strip(sub), via)

RECURSIVE RdLoop(_, _, _, _, _)
\* for post in posts: a stickied post is skipped before its title is looked
\* at; len(title) raises on a null title; a short title is skipped; every
\* other post is appended to `opportunities` at once, so what was appended
\* before a raise stays.
RdLoop(kinds, k, sub, via, acc) ==
  IF k > Len(kinds) THEN [raised |-> FALSE, opps |-> acc]
  ELSE LET post == MkPost(kinds[k], k, Strip(sub)) IN
       IF post.stickied THEN RdLoop(kinds, k + 1, sub, via, acc)
       ELSE IF post.title = None THEN [raised |-> TRUE, opps |-> acc]
       ELSE IF Len(post.title) < RdMinTitle THEN RdLoop(kinds, k + 1, sub, via, acc)
       ELSE RdLoop(kinds, k + 1, sub, via, Append(acc, RdRecord(post, sub, via)))

\* lines 157-167: the next community: its URL's gate, once
RdNext ==
  /\ pc = "rd_next"
  /\ rd.i <= Len(rd.subs)
  /\ LET sub == rd.subs[rd.i]
         json_url == JsonUrl(sub)
     IN \E dns \in RequestDns :
          LET ok == is_safe_url(json_url, dns) = PyTrue
              entry == [sub |-> sub, gate |-> Len(trace) + 1, safe |-> ok,
                        calls |-> 0, success |-> FALSE, okcall |-> 0]
          IN /\ Fault(~ok)
             /\ trace' = Append(trace, Ev("gate", json_url, ok))
             /\ rd' = [rd EXCEPT !.log = Append(@, entry),
                                 !.attempt = 1,
                                 !.resp = NoResp,
                                 !.i = IF ok THEN @ ELSE @ + 1]
             /\ pc' = IF ok THEN "rd_attempt" ELSE "rd_next"
  /\ UNCHANGED << probe, data, collected, response, hn, rv >>

\* what one answer does to `opportunities` and `success`
RdHandle(out, sub, via) ==
  IF out.kind = "resp" /\ out.status = 200
  THEN RdLoop(out.posts, 1, sub, via, << >>)
  ELSE [raised |-> TRUE, opps |-> << >>]

\* the retry loop ends on `break` (success) or with the last attempt
RdLoopEndsNoBreak(success, attempt) == attempt >= Attempts
RdLoopEnds(success, attempt) == success \/ attempt >= Attempts

\* lines 207-210: `if attempt < attempts: time.sleep(...)`, reached only when
\* the attempt did not `break`
RdSleepsAfterLast(success, attempt) == ~success
RdSleeps(success, attempt) == ~success /\ attempt < Attempts

\* lines 169-213: one turn of the retry loop
RdAttempt ==
  /\ pc = "rd_attempt"
  /\ \E out \in RdOutcomes :
       \E parsed \in { RdHandle(out, rd.subs[rd.i], Len(trace) + 1) } :
         LET sub == rd.subs[rd.i]
             success == ~parsed.raised
             stop == RdLoopEnds(success, rd.attempt)
             sleeps == RdSleeps(success, rd.attempt)
         IN /\ Fault(~success)
            /\ trace' = trace \o << Ev("call", JsonUrl(sub), TRUE) >>
                              \o (IF sleeps THEN << Ev("sleep", "", TRUE) >> ELSE << >>)
            /\ rd' = [rd EXCEPT
                        !.opportunities = @ \o parsed.opps,
                        !.resp = out,
                        !.log[Len(rd.log)] =
                           [@ EXCEPT !.calls = @ + 1,
                                     !.success = @ \/ success,
                                     !.okcall = IF success THEN Len(trace) + 1 ELSE @],
                        !.attempt = IF stop THEN 1 ELSE @ + 1,
                        !.i = IF stop THEN @ + 1 ELSE @]
            /\ pc' = IF stop THEN "rd_next" ELSE "rd_attempt"
  /\ UNCHANGED << probe, data, collected, response, hn, rv >>

\* line 215, and generate(): collected_data.extend(scrape_reddit_rss(subs))
RdReturn ==
  /\ pc = "rd_next"
  /\ rd.i > Len(rd.subs)
  /\ collected' = Extend(collected, rd.opportunities)
  /\ rd' = RdIdle
  /\ pc' = "sel_reviews"
  /\ UNCHANGED << probe, data, response, trace, hn, rv, faults >>

(* ------------------- 2C. find_app, scrape_reviews ---------------------- *)
ITUNES_SEARCH_URL == "https://itunes.apple.com/search"
PlaySearchUrl(query) == "https://play.google.com/store/search?q=" \o query \o "&c=apps"
PlayDetailsUrl(gp_id) == "https://play.google.com/store/apps/details?id=" \o gp_id
PLAY_REVIEWS_URL == "https://play.google.com/_/PlayStoreUi/data/batchexecute"
IosFeedUrl(id) ==
  "https://itunes.apple.com/us/rss/customerreviews/id=" \o id \o "/sortBy=mostRecent/json"
ReviewCut == 300
ReviewMinLen == 10

\* lines 268-284: try_ios
TryIos(name, out) ==
  IF out = "match"
  THEN [found |-> TRUE, platform |-> "ios", id |-> "42", title |-> "Notes",
        url |-> "https://apps.apple.com/us/app/notes/id42"]
  ELSE NoApp
\* lines 243-265: try_android, on search_google_play_manual's result
TryAndroid(name, out, details) ==
  IF out = "match"
  THEN [found |-> TRUE, platform |-> "android", id |-> "com.example.notes",
        title |-> IF details = "ok" THEN "Notes - Notebook" ELSE name,
        url |-> PlayDetailsUrl("com.example.notes")]
  ELSE NoApp

\* find_app(name, platform_preference): no URL is handed to the gate
FindApp ==
  /\ pc = "find_app"
  /\ \E out \in FindOutcomes, details \in DetailOutcomes :
       /\ Fault(out \in {"exc", "non200"} \/ details = "exc")
       /\ IF data.platform = "ios"
          THEN /\ details = "ok"
               /\ trace' = Append(trace, Ev("call", ITUNES_SEARCH_URL, TRUE))
               /\ rv' = [rv EXCEPT !.app_info = TryIos(data.app_name, out)]
          ELSE /\ (out # "match" => details = "ok")
               /\ trace' = trace \o << Ev("call", PlaySearchUrl(data.app_name), TRUE) >>
                    \o (IF out = "match"
                        THEN << Ev("call", PlayDetailsUrl("com.example.notes"), TRUE) >>
                        ELSE << >>)
               /\ rv' = [rv EXCEPT !.app_info = TryAndroid(data.app_name, out, details)]
  /\ pc' = "scrape_reviews"
  /\ UNCHANGED << probe, data, collected, response, hn, rd >>

ReviewContent(kind) == IF kind = "tiny" THEN "Bad app" ELSE "Keeps crashing on login"

RECURSIVE AndroidLoop(_, _, _, _, _)
\* lines 312-320
AndroidLoop(items, k, app_info, via, acc) ==
  IF k > Len(items) THEN acc
  ELSE LET content == ReviewContent(items[k]) IN
       IF Len(content) > ReviewMinLen
       THEN AndroidLoop(items, k + 1, app_info, via,
              Append(acc, Rec("r" \o DecStr(k),
                              "[Android Review] " \o Take(content, ReviewCut),
                              app_info.url,
                              "Google Play (" \o app_info.title \o ")", via)))
       ELSE AndroidLoop(items, k + 1, app_info, via, acc)

RECURSIVE IosLoop(_, _, _, _, _)
\* lines 329-344
IosLoop(items, k, app_info, via, acc) ==
  IF k > Len(items) THEN acc
  ELSE IF items[k] = "meta" THEN IosLoop(items, k + 1, app_info, via, acc)
  ELSE LET full_text == "Review - " \o ReviewContent(items[k]) IN
       IF Len(full_text) > ReviewMinLen
       THEN IosLoop(items, k + 1, app_info, via,
              Append(acc, Rec("e" \o DecStr(k),
                              "[iOS Review 2/5] " \o Take(full_text, ReviewCut),
                              app_info.url,
                              "App Store (" \o app_info.title \o ")", via)))
       ELSE IosLoop(items, k + 1, app_info, via, acc)

\* `if not app_info: return None`
AppMissing(app_info) == ~app_info.found

\* lines 294-349: scrape_reviews after find_app returned
ScrapeReviews ==
  /\ pc = "scrape_reviews"
  /\ IF AppMissing(rv.app_info)
     THEN /\ rv' = [rv EXCEPT !.isnone = TRUE, !.reviews = << >>]
          /\ UNCHANGED << trace, faults >>
     ELSE \E out \in ReviewOutcomes :
            LET app == rv.app_info
                via == Len(trace) + 1
                fetched == IF out.kind = "exc" THEN << >>
                           ELSE IF app.platform = "android"
                           THEN AndroidLoop(out.items, 1, app, via, << >>)
                           ELSE IosLoop(out.items, 1, app, via, << >>)
            IN /\ Fault(out.kind = "exc")
               /\ trace' = Append(trace,
                    Ev("call", IF app.platform = "android" THEN PLAY_REVIEWS_URL
                               ELSE IosFeedUrl(app.id), TRUE))
               /\ rv' = [rv EXCEPT !.isnone = FALSE, !.reviews = fetched]
  /\ pc' = "reviews_ret"
  /\ UNCHANGED << probe, data, collected, response, hn, rd >>

(* -------------------- 3. generate_business_ideas ----------------------- *)
PrefixLimit == 30

\* lines 357-360: the lines of the prompt, "ID: i | Content: ..." for the
\* records collected_data[:30]
InputData(collected_data) ==
  SubSeq(collected_data, 1, Min({ PrefixLimit, Len(collected_data) }))

Idea(k, original) ==
  [name |-> "idea " \o DecStr(k), pitch |-> "pitch " \o DecStr(k),
   source_text |-> original.text, source_url |-> original.url,
   source_origin |-> original.source]

RECURSIVE Enhance(_, _, _, _)
\* lines 391-406: an idea whose source_id is no index of collected_data is
\* left out
Enhance(ids, k, collected_data, acc) ==
  IF k > Len(ids) THEN acc
  ELSE LET idx == ids[k] IN
       IF 0 <= idx /\ idx < Len(collected_data)
       THEN Enhance(ids, k + 1, collected_data,
                    Append(acc, Idea(k, collected_data[idx + 1])))
       ELSE Enhance(ids, k + 1, collected_data, acc)

\* what generate_business_ideas returns when the service answers `out`
BusinessIdeas(collected_data, out) ==
  IF collected_data = << >> \/ out.kind = "exc" THEN << >>
  ELSE Enhance(out.ids, 1, collected_data, << >>)

(* --------------------------- 4. generate ------------------------------- *)
Answer(status, raw_count, ideas, error) ==
  [status |-> status, raw_count |-> raw_count, ideas |-> ideas, error |-> error]
DEFAULT_SUBS == << "SaaS", "startups" >>

\* line 440: `if source in ['hn', 'all']`
RunsHnAlways(source) == TRUE
RunsHn(source) == source \in { "hn", "all" }

\* lines 432-441
GenerateBegin ==
  /\ pc = "start"
  /\ IF ~data.present
     THEN /\ response' = Answer(400, 0, << >>, "Invalid JSON payload")
          /\ pc' = "done"
     ELSE /\ pc' = IF RunsHn(data.source) THEN "hn_gate" ELSE "sel_reddit"
          /\ UNCHANGED response
  /\ UNCHANGED << probe, data, collected, trace, hn, rd, rv, faults >>

\* any(subs)
AnyTruthy(subs) == \E k \in 1..Len(subs) : subs[k] # ""

\* line 446: the selector is "reddit" and no community is named
RedditSubsRejectedEmptyOnly(source, subs) == source = "reddit" /\ subs = << >>
RedditSubsRejected(source, subs) ==
  source = "reddit" /\ (subs = << >> \/ ~AnyTruthy(subs))

\* line 452: `if not subs: subs = ["SaaS", "startups"]`
SubsAsGiven(subs) == subs
SubsOrDefault(subs) == IF subs = << >> THEN DEFAULT_SUBS ELSE subs

\* lines 443-454
SelectReddit ==
  /\ pc = "sel_reddit"
  /\ IF data.source \in {"reddit", "all"}
     THEN LET subs == data.subreddits IN
          IF RedditSubsRejected(data.source, subs)
          THEN /\ response' = Answer(400, 0, << >>,
                     "Subreddits list cannot be empty for Reddit source")
               /\ pc' = "done"
               /\ UNCHANGED rd
          ELSE /\ rd' = [RdIdle EXCEPT !.subs = SubsOrDefault(subs)]
               /\ pc' = "rd_next"
               /\ UNCHANGED response
     ELSE /\ pc' = "sel_reviews"
          /\ UNCHANGED << response, rd >>
  /\ UNCHANGED << probe, data, collected, trace, hn, rv, faults >>

\* lines 456-462
SelectReviews ==
  /\ pc = "sel_reviews"
  /\ IF data.source = "reviews"
     THEN IF data.app_name = "" \/ Strip(data.app_name) = ""
          THEN /\ response' = Answer(400, 0, << >>,
                     "App Name cannot be empty for Reviews source")
               /\ pc' = "done"
          ELSE /\ pc' = "find_app"
               /\ UNCHANGED response
     ELSE /\ pc' = "analyze"
          /\ UNCHANGED response
  /\ UNCHANGED << probe, data, collected, trace, hn, rd, rv, faults >>

\* `if reviews is None`
IsNotFoundAlsoEmpty(r) == r.isnone \/ r.reviews = << >>
IsNotFound(r) == r.isnone

\* lines 464-467
ReviewsResult ==
  /\ pc = "reviews_ret"
  /\ IF IsNotFound(rv)
     THEN /\ response' = Answer(404, 0, << >>,
                "App '" \o data.app_name \o "' not found in " \o data.platform \o " store(s).")
          /\ pc' = "done"
          /\ UNCHANGED collected
     ELSE /\ collected' = Extend(collected, rv.reviews)
          /\ pc' = "analyze"
          /\ UNCHANGED response
  /\ UNCHANGED << probe, data, trace, hn, rd, rv, faults >>

\* lines 470-475
Analyze ==
  /\ pc = "analyze"
  /\ \E out \in LlmOutcomes :
       /\ (collected = << >> => out.kind = "ok" /\ out.ids = << >>)
       /\ Fault(out.kind = "exc")
       /\ trace' = IF collected = << >> THEN trace
                   ELSE Append(trace, Ev("llm", "", TRUE))
       /\ response' = Answer(200, Len(collected), BusinessIdeas(collected, out), "")
  /\ pc' = "done"
  /\ UNCHANGED << probe, data, collected, hn, rd, rv >>

(* ------------------------- specifications ------------------------------ *)
\* The gate alone: a URL and the resolver's answer at call time are drawn,
\* and is_safe_url is applied to them.
InitGate ==
  /\ \E url \in GateUrls, dns \in DnsOutcomes :
       probe = [url |-> url, dns |-> dns, result |-> None]
  /\ pc = "idle"
  /\ data = NoPayload
  /\ collected = << >>
  /\ response = NoResponse
  /\ trace = << >>
  /\ hn = HnIdle
  /\ rd = RdIdle
  /\ rv = RvIdle
  /\ faults = 0

\* One call of SecurityManager.is_safe_url(url).
Probe ==
  /\ probe.result = None
  /\ probe.url # None
  /\ probe' = [probe EXCEPT !.result = is_safe_url(probe.url, probe.dns)]
  /\ UNCHANGED pipe

NextGate == Probe

SpecGate == InitGate /\ [][NextGate]_vars

\* generate_business_ideas alone: generate() has gathered n records from two
\* communities and is about to analyse them.
GatheredRecord(k) ==
  LET sub == IF k <= 25 THEN "SaaS" ELSE "startups" IN
  Rec("t" \o DecStr(k),
      "[Reddit r/" \o sub \o "] Need a better tool no. " \o DecStr(k) \o " - ",
      "https://reddit.com/r/" \o sub \o "/comments/t" \o DecStr(k) \o "/",
      "Reddit r/" \o sub, 0)
InitIdeas ==
  /\ probe = NoProbe
  /\ pc = "analyze"
  /\ data = Payload("reddit", << "SaaS", "startups" >>, "", "android")
  /\ \E n \in 0..MaxRecords : collected = [k \in 1..n |-> GatheredRecord(k)]
  /\ response = NoResponse
  /\ trace = << >>
  /\ hn = HnIdle
  /\ rd = RdIdle
  /\ rv = RvIdle
  /\ faults = 0

NextIdeas == Analyze

SpecIdeas == InitIdeas /\ [][NextIdeas]_vars

\* One request to /generate-ideas.
Init ==
  /\ probe = NoProbe
  /\ pc = "start"
  /\ data \in Requests
  /\ collected = << >>
  /\ response = NoResponse
  /\ trace = << >>
  /\ hn = HnIdle
  /\ rd = RdIdle
  /\ rv = RvIdle
  /\ faults = 0

Next ==
  \/ GenerateBegin
  \/ HnGateListing
  \/ HnFetchListing
  \/ HnGateItem
  \/ HnGather
  \/ HnComplete
  \/ HnAssemble
  \/ SelectReddit
  \/ RdNext
  \/ RdAttempt
  \/ RdReturn
  \/ SelectReviews
  \/ FindApp
  \/ ScrapeReviews
  \/ ReviewsResult
  \/ Analyze

Spec == Init /\ [][Next]_vars
(* ------------------------------ claims --------------------------------- *)
Probed == probe.result # None
PublicIp == "151.101.1.140"
PrivateIp == "10.0.0.5"

\* The host of the probed URL is an allowlist entry, or ends with one that a
\* dot precedes.
Listed(host) ==
  \E k \in 1..Len(ALLOWED_DOMAINS) :
    LET d == Chars(ALLOWED_DOMAINS[k])
        p == Len(host) - Len(d)
    IN /\ p >= 0
       /\ SubSeq(host, p + 1, Len(host)) = d
       /\ (p = 0 \/ host[p] = ".")
ProbeHost == UrlHostname(probe.url)
ProbeHttps == UrlScheme(probe.url) = Chars("https")
ProbeParses == ~NetlocRaises(UrlNetloc(probe.url))
ProbeResolved == probe.dns # DnsFail

\* C2: a URL whose hostname is neither an allowlist entry nor a subdomain of
\* one is refused, whatever the resolver answers.
C2_UnlistedHostRefused ==
  (Probed /\ ~Listed(ProbeHost)) => probe.result = PyFalse
C2_Witness ==
  /\ probe.url = "https://evilreddit.com/"
  /\ probe.dns = << PublicIp >>
  /\ probe.result = PyFalse

\* C3: an https URL with an allowlisted hostname is refused when any resolved
\* address is private or loopback, wherever it sits in the answer.
C3_AnyPrivateAddressRefused ==
  (/\ Probed /\ ProbeParses /\ ProbeHttps /\ Listed(ProbeHost) /\ ProbeResolved
   /\ \E k \in 1..Len(probe.dns) : IpVerdict(probe.dns[k]) = "block")
  => probe.result = PyFalse
C3_Witness ==
  /\ probe.url = "https://www.reddit.com/r/SaaS/hot.json?limit=25"
  /\ probe.dns = << PublicIp, PrivateIp >>
  /\ probe.result = PyFalse

\* C4: is_safe_url returns a boolean for every input, and False whenever
\* parsing fails, the hostname is missing, resolution fails or a resolved
\* address cannot be parsed.
ProbeError ==
  \/ ~ProbeParses
  \/ ProbeHost = NoHostname
  \/ ~ProbeResolved
  \/ \E k \in 1..Len(probe.dns) : ParseIp(probe.dns[k]) = << >>
C4_FailsClosed ==
  Probed => /\ probe.result \in { PyTrue, PyFalse }
            /\ (ProbeError => probe.result = PyFalse)
C4_Witness ==
  /\ probe.url = "https://www.reddit.com/r/SaaS/hot.json?limit=25"
  /\ probe.dns = DnsFail
  /\ probe.result = PyFalse

\* C5: a URL whose scheme is not https is refused, whatever its hostname and
\* whatever the resolver answers.
C5_NonHttpsRefused ==
  (Probed /\ ~ProbeHttps) => probe.result = PyFalse
C5_Witness ==
  /\ probe.url = "http://www.reddit.com/"
  /\ probe.dns = << PublicIp >>
  /\ probe.result = PyFalse

\* C6: an https URL whose hostname is an allowlist entry or a subdomain of
\* one, resolving to a non-empty answer of public addresses only, is accepted.
C6_PublicAllowlistedAccepted ==
  (/\ Probed /\ ProbeParses /\ ProbeHttps /\ ProbeHost # NoHostname
   /\ Listed(ProbeHost) /\ ProbeResolved /\ probe.dns # << >>
   /\ \A k \in 1..Len(probe.dns) : IpVerdict(probe.dns[k]) = "pass")
  => probe.result = PyTrue
C6_Witness ==
  /\ probe.url = "https://api.reddit.com/x"
  /\ probe.dns = << PublicIp >>
  /\ probe.result = PyTrue

\* C1: every record of the aggregated sequence was made from the answer to a
\* network call whose URL is_safe_url had accepted before the call.
GatedCall(j) ==
  /\ j \in 1..Len(trace)
  /\ trace[j].kind = "call"
  /\ \E g \in 1..(j - 1) : trace[g] = Ev("gate", trace[j].url, TRUE)
C1_EveryRecordFromGatedCall ==
  \A k \in 1..Len(collected) : GatedCall(collected[k].via)

\* C7: a community gets at most 3 requests, none after its first successful
\* attempt, and the items of that attempt are in the output.
RdKept(kinds) ==
  { k \in 1..Len(kinds) : /\ ~MkPost(kinds[k], k, "").stickied
                          /\ Len(MkPost(kinds[k], k, "").title) >= 10 }
RECURSIVE RdItems(_, _, _, _)
RdItems(kinds, k, sub, via) ==
  IF k > Len(kinds) THEN << >>
  ELSE (IF k \in RdKept(kinds)
        THEN << RdRecord(MkPost(kinds[k], k, Strip(sub)), sub, via) >> ELSE << >>)
       \o RdItems(kinds, k + 1, sub, via)
RdAnswerOk(resp) ==
  /\ resp.kind = "resp" /\ resp.status = 200
  /\ \A k \in 1..Len(resp.posts) : resp.posts[k] # "null"
RdEndsWith(opps, items) ==
  /\ Len(opps) >= Len(items)
  /\ SubSeq(opps, Len(opps) - Len(items) + 1, Len(opps)) = items
C7_RetryBoundAndItems ==
  /\ \A c \in 1..Len(rd.log) : rd.log[c].calls <= 3
  /\ (pc = "rd_attempt" => ~rd.log[Len(rd.log)].success)
  /\ (pc \in {"rd_attempt", "rd_next"} /\ RdAnswerOk(rd.resp)) =>
       LET e == rd.log[Len(rd.log)] IN
       /\ e.success
       /\ pc = "rd_next"
       /\ RdEndsWith(rd.opportunities, RdItems(rd.resp.posts, 1, e.sub, e.okcall))
C7_Witness ==
  /\ pc = "rd_next"
  /\ rd.log # << >>
  /\ rd.log[Len(rd.log)].calls = 3
  /\ rd.log[Len(rd.log)].success
  /\ rd.resp.posts = << "good", "good" >>
  /\ Len(rd.opportunities) = 2
  /\ rd.opportunities[1].id = "t1" /\ rd.opportunities[2].id = "t2"

\* C8: a community that is unsafe or fails all its attempts leaves nothing in
\* the output: every record comes from a community's successful attempt.
RdReturned == pc = "rd_next" /\ rd.i > Len(rd.subs)
RdOwner(r) ==
  CHOOSE c \in 1..Len(rd.log) :
    /\ rd.log[c].gate < r.via
    /\ \A d \in 1..Len(rd.log) : rd.log[d].gate < r.via => d <= c
C8_FailedCommunityLeavesNothing ==
  RdReturned =>
    \A k \in 1..Len(rd.opportunities) :
      rd.log[RdOwner(rd.opportunities[k])].success

\* C9: a detail fetch that raises, answers non-200 or carries a body that is
\* no story removes only its own item: the harvest returns the record of
\* every other fetched item that names a keyword.
HnGoodAnswer(r) ==
  /\ r.kind = "resp" /\ r.status = 200 /\ ~r.body.isnull
  /\ StoryMatches(r.body.title, r.body.text)
RECURSIVE HnItems(_, _, _)
HnItems(responses, calls, k) ==
  IF k > Len(responses) THEN << >>
  ELSE (IF HnGoodAnswer(responses[k])
        THEN << HnRecord(responses[k].body, calls[k]) >> ELSE << >>)
       \o HnItems(responses, calls, k + 1)
C9_ItemFailureIsolated ==
  [][(pc = "hn_wait" /\ pc' # "hn_wait")
       => collected' = collected \o HnItems(hn.responses, hn.calls, 1)]_vars

\* C10: scrape_reviews returns None exactly when find_app found no app, and a
\* list otherwise; generate answers 404 exactly then, and 200 with raw_count 0
\* for an app that was found and has no usable review.
C10_NotFoundIffUnresolved ==
  /\ pc = "reviews_ret" => (rv.isnone <=> ~rv.app_info.found)
  /\ response.status = 404 => data.source = "reviews"
  /\ (pc = "done" /\ data.source = "reviews" /\ response.status # 400) =>
       /\ response.status = 404 <=> ~rv.app_info.found
       /\ rv.app_info.found =>
            /\ response.status = 200
            /\ response.raw_count = Len(rv.reviews)
C10_Witness ==
  /\ pc = "done"
  /\ data.source = "reviews"
  /\ rv.app_info.found
  /\ rv.reviews = << >>
  /\ response.status = 200
  /\ response.raw_count = 0

\* C11: with the selector "reddit" and a community list that is missing,
\* empty or made of empty entries only, generate answers 400; the default
\* list is not put in its place and scrape_reddit_rss is never entered.
NoNamedCommunity == \A k \in 1..Len(data.subreddits) : data.subreddits[k] = ""
C11_RedditNeedsCommunities ==
  (data.present /\ data.source = "reddit" /\ NoNamedCommunity) =>
    /\ pc \in { "start", "sel_reddit", "done" }
    /\ trace = << >>
    /\ rd = RdIdle
    /\ collected = << >>
    /\ pc = "done" => response.status = 400
C11_Witness ==
  /\ pc = "done"
  /\ data.source = "reddit"
  /\ data.subreddits = << "", "" >>
  /\ response.status = 400
  /\ trace = << >>

\* C12: with the selector "all" and no community list, scrape_reddit_rss is
\* entered with ["SaaS", "startups"], and the request goes on to synthesis
\* and a 200 answer.
Gated(url) == \E g \in 1..Len(trace) : trace[g].kind = "gate" /\ trace[g].url = url
C12_AllGetsDefaultCommunities ==
  (data.present /\ data.source = "all" /\ data.subreddits = << >>) =>
    /\ pc \in { "rd_next", "rd_attempt" } => rd.subs = << "SaaS", "startups" >>
    /\ pc \in { "sel_reviews", "analyze", "done" } =>
         /\ Gated("https://www.reddit.com/r/SaaS/hot.json?limit=25")
         /\ Gated("https://www.reddit.com/r/startups/hot.json?limit=25")
    /\ pc = "done" =>
         /\ response.status = 200
         /\ response.raw_count = Len(collected)
C12_Witness ==
  /\ pc = "done"
  /\ data.source = "all"
  /\ data.subreddits = << >>
  /\ response.status = 200
  /\ \E k \in 1..Len(collected) : collected[k].source = "Reddit r/startups"

\* C13: when generate answers 400, no harvester has made a network call and
\* the synthesis service has not been called while the request was served.
C13_RejectedBeforeHarvest ==
  response.status = 400 =>
    /\ \A j \in 1..Len(trace) : trace[j].kind \notin { "call", "llm" }
    /\ collected = << >>
C13_Witness ==
  /\ pc = "done"
  /\ response.status = 400
  /\ data.source = "reviews"
  /\ data.app_name = "  "
  /\ trace = << >>

\* C14: every idea of the answer stems from one of the records submitted to
\* the synthesis service, the first min(30, n) of the n gathered: an idea
\* naming any other index is left out.
C14_IdeasStemFromSubmittedPrefix ==
  (pc = "done" /\ response.status = 200) =>
    \A i \in 1..Len(response.ideas) :
      \E k \in 1..Len(InputData(collected)) :
        /\ InputData(collected)[k].text = response.ideas[i].source_text
        /\ InputData(collected)[k].url = response.ideas[i].source_url

\* C15: the url of every harvested record is a URL the gate accepted before
\* the record was made, so its host is on the gate's allowlist.
C15_RecordUrlWasValidated ==
  \A k \in 1..Len(collected) :
    /\ Listed(UrlHostname(collected[k].url))
    /\ \E g \in 1..Len(trace) : trace[g] = Ev("gate", collected[k].url, TRUE)

\* C16: the sequence handed to synthesis is the harvesters' outputs one after
\* the other: HN records before feed records, feed records in the order of
\* the community list (the order of their requests), the records of one
\* listing in the listing's order; synthesis sees all of them and no other.
IsFeedRecord(r) == SubSeq(r.source, 1, 9) = "Reddit r/"
ListingPos(r) == CHOOSE p \in 1..(MaxPosts + 1) : r.id = "t" \o DecStr(p)
InHarvestOrder(records) ==
  \A i, j \in 1..Len(records) :
    i < j =>
      /\ ~(records[i].source # "Hacker News" /\ records[j].source = "Hacker News")
      /\ records[i].via <= records[j].via
      /\ (IsFeedRecord(records[i]) /\ records[i].via = records[j].via)
           => ListingPos(records[i]) < ListingPos(records[j])
C16_ConcatenatedInOrder ==
  /\ InHarvestOrder(collected)
  /\ InHarvestOrder(collected \o rd.opportunities)
  /\ (pc = "done" /\ response.status = 200) =>
       /\ response.raw_count = Len(collected)
       /\ \A i \in 1..Len(response.ideas) :
            \E k \in 1..Len(collected) :
              response.ideas[i].source_text = collected[k].text
C16_Witness ==
  /\ pc = "done"
  /\ data.source = "all"
  /\ response.raw_count = 3
  /\ Len(collected) = 3
  /\ collected[1].source = "Hacker News"
  /\ collected[2].source = "Reddit r/SaaS"
  /\ collected[3].source = "Reddit r/startups"

\* C17: every network call of the HN harvester and of the feed harvester
\* comes right after an is_safe_url check that accepted that call's URL:
\* no sleep and no other call lies between the verdict and the call.
HarvesterUrl(url) ==
  \/ SubSeq(url, 1, 23) = "https://www.reddit.com/"
  \/ SubSeq(url, 1, 35) = "https://hacker-news.firebaseio.com/"
C17_GateRightBeforeEachCall ==
  \A j \in 1..Len(trace) :
    (trace[j].kind = "call" /\ HarvesterUrl(trace[j].url)) =>
      /\ j > 1
      /\ trace[j - 1] = Ev("gate", trace[j].url, TRUE)

\* C18: in whatever order the detail fetches complete, each answer sits at
\* the position of its request, and the HN records come out in the order in
\* which the requests were issued, each made from its own request's answer.
HnStoryAnswer(r) == r.kind = "resp" /\ r.status = 200 /\ ~r.body.isnull
C18_IssueOrderWhateverCompletes ==
  /\ pc = "hn_wait" =>
       \A k \in 1..Len(hn.responses) :
         /\ (k \in hn.pending) <=> (hn.responses[k].kind = "pending")
         /\ HnStoryAnswer(hn.responses[k]) => hn.responses[k].body.id = hn.tasks[k]
  /\ \A i, j \in 1..Len(collected) :
       (collected[i].source = "Hacker News" /\ collected[j].source = "Hacker News") =>
         /\ trace[collected[i].via].url =
              "https://hacker-news.firebaseio.com/v0/item/" \o collected[i].id \o ".json"
         /\ i < j => collected[i].via < collected[j].via
C18_Witness ==
  /\ pc = "hn_wait"
  /\ hn.tasks = << 101, 102 >>
  /\ hn.pending = { 1 }
  /\ HnStoryAnswer(hn.responses[2])
  /\ hn.responses[2].body.id = 102

\* C19: the feed harvester sleeps exactly between two attempts for one
\* community: after each failed attempt 1 or 2, never after the third and
\* never after a success; a community failing throughout sleeps twice.
RdSegment(c) ==
  { j \in 1..Len(trace) :
      /\ j > rd.log[c].gate
      /\ c < Len(rd.log) => j < rd.log[c + 1].gate }
RdCalls(c) == { j \in RdSegment(c) : trace[j].kind = "call" }
RdSleepEvents(c) == { j \in RdSegment(c) : trace[j].kind = "sleep" }
RdFinished(c) == c < Len(rd.log) \/ pc = "rd_next"
C19_SleepsOnlyBetweenAttempts ==
  \A c \in 1..Len(rd.log) :
    LET e == rd.log[c]
        calls == Cardinality(RdCalls(c))
        sleeps == Cardinality(RdSleepEvents(c))
    IN /\ calls = e.calls
       /\ \A j \in RdSleepEvents(c) :
            /\ j - 1 \in RdCalls(c)
            /\ Cardinality({ k \in RdCalls(c) : k < j }) \in { 1, 2 }
            /\ j < Len(trace) => j + 1 \in RdCalls(c)
       /\ RdFinished(c) =>
            /\ sleeps = (IF e.success THEN calls - 1 ELSE IF e.safe THEN 2 ELSE 0)
            /\ (~e.success /\ e.safe) => calls = 3
       /\ ~RdFinished(c) => (sleeps = calls /\ calls <= 2 /\ ~e.success)
C19_Witness ==
  /\ pc = "rd_next"
  /\ rd.log # << >>
  /\ rd.log[Len(rd.log)].safe
  /\ ~rd.log[Len(rd.log)].success
  /\ Cardinality(RdCalls(Len(rd.log))) = 3
  /\ Cardinality(RdSleepEvents(Len(rd.log))) = 2
  /\ trace[Len(trace)].kind = "call"

\* C20: an item of a community's listing gives at most one record of the
\* feed harvester's output, whatever the attempts' outcomes: a failed
\* attempt leaves none of its records behind for a retry to repeat.
C20_OneRecordPerItem ==
  \A i, j \in 1..Len(rd.opportunities) :
    (/\ i < j
     /\ RdOwner(rd.opportunities[i]) = RdOwner(rd.opportunities[j]))
    => rd.opportunities[i].id # rd.opportunities[j].id
====
